---- MODULE Spec2Model ----
(***************************************************************************)
(* The generation page of the D&D quest generator (frontend/app/page.tsx): *)
(* the incremental SSE parser processStream and the handlers that drive    *)
(* the human-in-the-loop session (handleSubmit, handleResume,              *)
(* handleSelectThread).                                                    *)
(*                                                                         *)
(* Text is a sequence of symbols.  A symbol is either a line terminator    *)
(* (CR, LF), one of the two field markers ("event: ", "data: "), or a run  *)
(* of characters without line terminators and without surrounding blanks   *)
(* (an event-type name, a JSON document).  A reader chunk is any           *)
(* subsequence of consecutive symbols of the response body.                *)
(***************************************************************************)
EXTENDS Integers, Sequences, FiniteSets, TLC

VARIABLES
    status,                \* useState("")            page.tsx:15
    campaignPlan,          \* useState(null)          page.tsx:16
    partyDetails,          \* useState(null)          page.tsx:17
    narrative,             \* useState(null)          page.tsx:18
    threadId,              \* useState(null)          page.tsx:19
    charIndex,             \* useState(0)             page.tsx:21
    hitlData,              \* useState(null)          page.tsx:31
    isLoadingHistory,      \* useState(false)         page.tsx:37
    stored,                \* localStorage['dnd_active_thread_id']
    streams,               \* the processStream invocations that have not returned
    request,               \* the POST /generate the last step issued, if any
    loads,                 \* the handleSelectThread invocations awaiting GET /threads/{id}
    wire,                  \* decoder runs: the frames of the response body
    pos,                   \* decoder runs: symbols of the body already delivered
    ref                    \* decoder runs: the same delivery without the frames marked bad

vars == <<status, campaignPlan, partyDetails, narrative, threadId, charIndex,
          hitlData, isLoadingHistory, stored, streams, request, loads, wire, pos, ref>>

pageVars == <<status, campaignPlan, partyDetails, narrative, threadId,
              hitlData, isLoadingHistory, stored>>

----------------------------------------------------------------------------
(* Bounds *)

MaxFrames == 2      \* frames in the body of a decoder run
MaxStreams == 1     \* processStream invocations that have not returned
MaxRaceStreams == 2 \* the same, in the runs that race streams against each other
MaxLoads == 1       \* GET /threads/{id} requests in flight at a time
MaxBlocks == 2      \* raw blocks in the body of a run over raw blocks
MaxRaceLoads == 2   \* GET /threads/{id} requests in flight, in the runs that race them
MaxCharacters == 10 \* characters of a party in the runs of the carousel

----------------------------------------------------------------------------
(* Values *)

NULL == "null"      \* JS null / undefined

LF == "\n"
CR == "\r"
EVENT == "event: "
DATA == "data: "

Connecting == "Connecting to AI..."
Resuming == "Resuming generation..."
Waiting == "Waiting for your approval..."
Complete == "Generation Complete!"
ConnectionFailed == "Error: Connection Failed"
CouldNotConnect == "Error: Could not connect to API"
LoadingHistory == "Loading historical data..."
ErrorLoadingHistory == "Error loading history."

----------------------------------------------------------------------------
(* JSON documents that occur in the modelled traffic, and what JSON.parse  *)
(* makes of them.  A parsed object is named by a string; Prop reads one of *)
(* its properties (NULL when absent).  Any other text does not parse.      *)

JsonThread1 == "{\"thread_id\":\"t1\"}"
JsonThread2 == "{\"thread_id\":\"t2\"}"
JsonStatus == "{\"status\":\"Planning...\"}"
JsonPlan == "{\"core_conflict\":\"feud\"}"
JsonParty == "{\"characters\":[]}"
JsonNarrative == "{\"title\":\"Quest\",\"description\":\"d\",\"background\":\"b\"}"
JsonHitl == "{\"action_1_payload\":\"approve\"}"
JsonError == "{\"error\":\"boom\"}"
JsonEmpty == "{}"
JsonBad == "{\"status\":"

JsonTable ==
    (JsonThread1 :> "thread:t1") @@ (JsonThread2 :> "thread:t2") @@
    (JsonStatus :> "status:Planning") @@ (JsonPlan :> "plan:feud") @@
    (JsonParty :> "party:empty") @@ (JsonNarrative :> "narrative:Quest") @@
    (JsonHitl :> "hitl:approve") @@ (JsonError :> "error:boom") @@
    (JsonEmpty :> "empty")

PropTable ==
    (<<"thread:t1", "thread_id">> :> "t1") @@ (<<"thread:t2", "thread_id">> :> "t2") @@
    (<<"status:Planning", "status">> :> "Planning...") @@
    (<<"error:boom", "error">> :> "boom") @@
    (<<"plan:feud", "core_conflict">> :> "feud") @@
    (<<"party:empty", "characters">> :> "[]") @@
    (<<"narrative:Quest", "title">> :> "Quest") @@
    (<<"narrative:Quest", "description">> :> "d") @@
    (<<"narrative:Quest", "background">> :> "b")

Prop(obj, name) == IF <<obj, name>> \in DOMAIN PropTable THEN PropTable[<<obj, name>>] ELSE NULL

\* JSON.parse(text): text is a trimmed symbol sequence
JSONparse(text) ==
    IF Len(text) = 1 /\ text[1] \in DOMAIN JsonTable
    THEN [ok |-> TRUE, value |-> JsonTable[text[1]]]
    ELSE [ok |-> FALSE, value |-> NULL]

\* `Error: ${errData.error}`
ErrorStatus(msg) == IF msg = "boom" THEN "Error: boom" ELSE "Error: undefined"

----------------------------------------------------------------------------
(* String helpers of processStream *)

IsSpace(c) == c \in {LF, CR}

RECURSIVE TrimLeft(_)
TrimLeft(s) == IF s # <<>> /\ IsSpace(Head(s)) THEN TrimLeft(Tail(s)) ELSE s

RECURSIVE TrimRight(_)
TrimRight(s) ==
    IF s # <<>> /\ IsSpace(s[Len(s)]) THEN TrimRight(SubSeq(s, 1, Len(s) - 1)) ELSE s

Trim(s) == TrimRight(TrimLeft(s))

\* length of the match of /\r?\n\r?\n/ that starts at index i of s, 0 when there is none
boundaryLengthAt(s, i) ==
    LET a == IF s[i] = CR THEN 1 ELSE 0
        j == i + a
    IN  IF j > Len(s) \/ s[j] # LF THEN 0
        ELSE IF j + 1 <= Len(s) /\ s[j + 1] = LF THEN a + 2
        ELSE IF j + 2 <= Len(s) /\ s[j + 1] = CR /\ s[j + 2] = LF THEN a + 3
        ELSE 0

\* buffer.match(/\r?\n\r?\n/) from index i on: index of the leftmost match, 0 when none
RECURSIVE boundaryFrom(_, _)
boundaryFrom(s, i) ==
    IF i > Len(s) THEN 0
    ELSE IF boundaryLengthAt(s, i) > 0 THEN i
    ELSE boundaryFrom(s, i + 1)

\* a search that takes the last boundary of the buffer, not the first
RECURSIVE boundaryBack(_, _)
boundaryBack(s, i) ==
    IF i < 1 THEN 0
    ELSE IF boundaryLengthAt(s, i) > 0 THEN i
    ELSE boundaryBack(s, i - 1)

boundaryIndexLast(s) == boundaryBack(s, Len(s))

boundaryIndex(s) == boundaryFrom(s, 1)

\* ev.indexOf("data: ") from index i on, 0 when absent
RECURSIVE indexOfData(_, _)
indexOfData(ev, i) ==
    IF i > Len(ev) THEN 0
    ELSE IF ev[i] = DATA THEN i
    ELSE indexOfData(ev, i + 1)

dataIndex(ev) == indexOfData(ev, 1)

\* end of the run of non-terminators that starts at index i
RECURSIVE LineEnd(_, _)
LineEnd(s, i) == IF i <= Len(s) /\ ~IsSpace(s[i]) THEN LineEnd(s, i + 1) ELSE i

\* whether /event: (.*)\r?\n/ matches at index i of ev
eventLineAt(ev, i) ==
    /\ ev[i] = EVENT
    /\ LET e == LineEnd(ev, i + 1)
       IN  \/ (e <= Len(ev) /\ ev[e] = LF)
           \/ (e + 1 <= Len(ev) /\ ev[e] = CR /\ ev[e + 1] = LF)

RECURSIVE eventLineFrom(_, _)
eventLineFrom(ev, i) ==
    IF i > Len(ev) THEN 0
    ELSE IF eventLineAt(ev, i) THEN i
    ELSE eventLineFrom(ev, i + 1)

\* ev.match(/event: (.*)\r?\n/): the leftmost "event: " whose line is terminated
eventMatch(ev) ==
    LET i == eventLineFrom(ev, 1)
    IN  IF i = 0 THEN [found |-> FALSE, group |-> <<>>]
        ELSE [found |-> TRUE, group |-> SubSeq(ev, i + 1, LineEnd(ev, i + 1) - 1)]

\* eventMatch[1].trim(): the captured line as one string
eventType(group) == IF Len(group) = 1 THEN group[1] ELSE "?"

----------------------------------------------------------------------------
(* processStream: the fold of one event and the drain of the buffer.  S is *)
(* the page state the setters write; storageOk is whether                  *)
(* localStorage.setItem succeeds.                                          *)

\* a processStream without the inner try/catch: the exception of JSON.parse reaches
\* the catch of the read loop (page.tsx:259-263)
OnParseErrorRethrow(S) == [S |-> [S EXCEPT !.status = ConnectionFailed], done |-> TRUE]

\* page.tsx:252-254, the catch of the dispatch: the error is logged, the frame dropped
OnParseError(S) == [S |-> S, done |-> FALSE]

\* a thread_id branch without the localStorage.setItem call
AssignThreadUnsaved(S, id, storageOk) == [S EXCEPT !.threadId = id]

\* page.tsx:216-218, setThreadId(parsed.thread_id) and then localStorage.setItem;
\* when setItem throws, the catch of the dispatch takes it
AssignThread(S, id, storageOk) ==
    [S EXCEPT !.threadId = id, !.stored = IF storageOk THEN id ELSE @]

\* a hitl branch that takes an approval request on a resumed stream for an error
RequestApprovalOnce(S, hitl) ==
    IF S.status = Resuming
    THEN [S |-> [S EXCEPT !.status = ErrorStatus(NULL)], done |-> TRUE]
    ELSE [S |-> [S EXCEPT !.hitlData = hitl, !.status = Waiting], done |-> TRUE]

\* page.tsx:222-224, setHitlData(hitl), the waiting status, done = true
RequestApproval(S, hitl) ==
    [S |-> [S EXCEPT !.hitlData = hitl, !.status = Waiting], done |-> TRUE]

\* a dispatch with a last else that takes any other type for the end of the stream
OnOtherTypeStop(S) == [S |-> [S EXCEPT !.status = Complete], done |-> TRUE]

\* page.tsx:214-251, the if / else-if chain has no last else: no branch is taken
OnOtherType(S) == [S |-> S, done |-> FALSE]

\* page.tsx:213-254, the try/catch around the dispatch on eventType
FoldEvent(S, type, eventData, storageOk) ==
    LET p == JSONparse(eventData)
        same == OnParseError(S)
    IN  CASE type = "thread_id" ->
               IF ~p.ok THEN same
               ELSE [S |-> AssignThread(S, Prop(p.value, "thread_id"), storageOk),
                     done |-> FALSE]
          [] type = "hitl" ->
               IF ~p.ok THEN same
               ELSE RequestApproval(S, p.value)
          [] type = "status" ->
               IF ~p.ok THEN same
               ELSE [S |-> [S EXCEPT !.status = Prop(p.value, "status")], done |-> FALSE]
          [] type = "plan" ->
               IF ~p.ok THEN same
               ELSE [S |-> [S EXCEPT !.campaignPlan = p.value], done |-> FALSE]
          [] type = "party" ->
               IF ~p.ok THEN same
               ELSE [S |-> [S EXCEPT !.partyDetails = p.value], done |-> FALSE]
          [] type = "narrative" ->
               IF ~p.ok THEN same
               ELSE [S |-> [S EXCEPT !.narrative = p.value], done |-> FALSE]
          [] type = "error" ->
               IF ~p.ok THEN same
               ELSE [S |-> [S EXCEPT !.status = ErrorStatus(Prop(p.value, "error"))],
                     done |-> TRUE]
          [] type = "done" ->
               [S |-> [S EXCEPT !.status = Complete], done |-> TRUE]
          [] OTHER -> OnOtherType(S)

\* a block filter that looks for the event line anywhere in the block
FoldBlockAnywhere(S, ev, storageOk) ==
    IF Trim(ev) = <<>> THEN [S |-> S, done |-> FALSE]
    ELSE LET m == eventMatch(ev)
             d == dataIndex(ev)
         IN  IF m.found /\ d # 0
             THEN FoldEvent(S, eventType(m.group), Trim(SubSeq(ev, d + 1, Len(ev))), storageOk)
             ELSE [S |-> S, done |-> FALSE]

\* page.tsx:204-255, one raw block ev
FoldBlock(S, ev, storageOk) ==
    IF Trim(ev) = <<>> \/ Head(ev) # EVENT THEN [S |-> S, done |-> FALSE]
    ELSE LET m == eventMatch(ev)
             d == dataIndex(ev)
         IN  IF m.found /\ d # 0
             THEN FoldEvent(S, eventType(m.group), Trim(SubSeq(ev, d + 1, Len(ev))), storageOk)
             ELSE [S |-> S, done |-> FALSE]

\* a slice that takes every boundary for two characters long
AdvanceByTwo(buffer, i) == SubSeq(buffer, i + 2, Len(buffer))

\* page.tsx:201, buffer.slice(boundaryIndex + boundaryLength)
Advance(buffer, i) == SubSeq(buffer, i + boundaryLengthAt(buffer, i), Len(buffer))

\* an if in the place of the inner while: one block is taken per chunk
DrainBufferOnce(S, buffer, done, storageOk) ==
    LET i == boundaryIndex(buffer)
    IN  IF i = 0 THEN [S |-> S, buffer |-> buffer, done |-> done]
        ELSE LET r == FoldBlock(S, SubSeq(buffer, 1, i - 1), storageOk)
             IN  [S |-> r.S, buffer |-> Advance(buffer, i), done |-> done \/ r.done]

\* page.tsx:195-256, the inner while loop over the boundaries of the buffer
RECURSIVE DrainBuffer(_, _, _, _)
DrainBuffer(S, buffer, done, storageOk) ==
    LET i == boundaryIndex(buffer)
    IN  IF i = 0 THEN [S |-> S, buffer |-> buffer, done |-> done]
        ELSE LET ev == SubSeq(buffer, 1, i - 1)
                 rest == Advance(buffer, i)
                 r == FoldBlock(S, ev, storageOk)
             IN  DrainBuffer(r.S, rest, done \/ r.done, storageOk)

\* a read that assigns the chunk to the buffer instead of appending it
ProcessChunkNoCarry(S, buffer, chunk, storageOk) == DrainBuffer(S, chunk, FALSE, storageOk)

\* page.tsx:191-257, one chunk read with done = readerDone = false
ProcessChunk(S, buffer, chunk, storageOk) == DrainBuffer(S, buffer \o chunk, FALSE, storageOk)

----------------------------------------------------------------------------
(* The page state the setters of processStream write *)

Session ==
    [status |-> status, campaignPlan |-> campaignPlan, partyDetails |-> partyDetails,
     narrative |-> narrative, threadId |-> threadId, hitlData |-> hitlData,
     stored |-> stored]

SetSession(S) ==
    /\ status' = S.status
    /\ campaignPlan' = S.campaignPlan
    /\ partyDetails' = S.partyDetails
    /\ narrative' = S.narrative
    /\ threadId' = S.threadId
    /\ hitlData' = S.hitlData
    /\ stored' = S.stored

\* A processStream invocation that has not returned, with the fetch that precedes
\* it: where it stands (fetch: awaiting the response; read: in the read loop, no
\* chunk has changed the page state yet; streaming: in the read loop after that),
\* its accumulation buffer, whether the response status is a success, and a history
\* mark: the handler the user invoked last since the stream was opened
\* ("resumed" is noted on streaming streams only).
Stream(pc) == [pc |-> pc, buffer |-> <<>>, ok |-> TRUE, mark |-> ""]

Reading(st) == st.pc \in {"read", "streaming"}

\* the body of a POST /generate: the keys the session protocol reads
Post(thread_id, resume_action) ==
    [sent |-> TRUE, thread_id |-> thread_id, resume_action |-> resume_action]

NoRequest == [sent |-> FALSE, thread_id |-> NULL, resume_action |-> NULL]

----------------------------------------------------------------------------
(* Decoder runs: one response body made of frames, delivered to one        *)
(* processStream in chunks cut at arbitrary offsets.                       *)

Frame(type, data, eol) == [type |-> type, data |-> data, eol |-> eol]

\* event: <type>\ndata: <json>\n\n (section 6 of the wire format), with LF or CRLF line ends
Text(f) ==
    LET nl == IF f.eol = "crlf" THEN <<CR, LF>> ELSE <<LF>>
    IN  <<EVENT, f.type>> \o nl \o <<DATA, f.data>> \o nl \o nl

DecoderFrames ==
    { Frame("thread_id", JsonThread1, "lf"), Frame("status", JsonStatus, "crlf"),
      Frame("plan", JsonPlan, "lf"), Frame("hitl", JsonHitl, "lf"),
      Frame("error", JsonError, "lf"), Frame("done", JsonEmpty, "lf"),
      Frame("ping", JsonEmpty, "lf"),
      Frame("status", JsonBad, "lf"), Frame("hitl", JsonBad, "crlf"),
      Frame("done", JsonBad, "lf") }

\* the end-to-end example: thread_id, status, hitl
ExampleBody ==
    << Frame("thread_id", JsonThread1, "lf"), Frame("status", JsonStatus, "lf"),
       Frame("hitl", JsonHitl, "lf") >>

\* a bad frame between two good ones
SandwichBody ==
    << Frame("plan", JsonPlan, "lf"), Frame("status", JsonBad, "lf"),
       Frame("narrative", JsonNarrative, "crlf") >>

Bodies == UNION {[1..n -> DecoderFrames] : n \in 1..MaxFrames} \cup {ExampleBody, SandwichBody}

RECURSIVE Flatten(_)
Flatten(fs) == IF fs = <<>> THEN <<>> ELSE Text(Head(fs)) \o Flatten(Tail(fs))

IsBad(f) == f.data = JsonBad

\* frames whose fold sets done = true
Stops(f) == \/ f.type \in {"hitl", "error"} /\ ~IsBad(f)
            \/ f.type = "done"

\* the symbols of a body that belong to a bad frame, and a chunk without them
RECURSIVE BadMask(_)
BadMask(fs) ==
    IF fs = <<>> THEN <<>>
    ELSE [i \in 1..Len(Text(Head(fs))) |-> IsBad(Head(fs))] \o BadMask(Tail(fs))

RECURSIVE Unmasked(_, _, _, _)
Unmasked(text, mask, from, to) ==
    IF from > to THEN <<>>
    ELSE (IF mask[from] THEN <<>> ELSE <<text[from]>>) \o Unmasked(text, mask, from + 1, to)

\* the state handleSubmit leaves when the response arrives (page.tsx:271-282)
Submitted ==
    [status |-> Connecting, campaignPlan |-> NULL, partyDetails |-> NULL, narrative |-> NULL,
     threadId |-> NULL, hitlData |-> NULL, stored |-> NULL]

InitDecode ==
    /\ wire \in Bodies
    /\ pos = 0
    /\ charIndex = 0
    /\ status = Submitted.status
    /\ campaignPlan = NULL /\ partyDetails = NULL /\ narrative = NULL
    /\ threadId = NULL /\ hitlData = NULL
    /\ isLoadingHistory = FALSE
    /\ stored = NULL
    /\ streams = <<Stream("read")>>
    /\ request = NoRequest
    /\ loads = <<>>
    /\ ref = [S |-> Submitted, buffer |-> <<>>, done |-> FALSE]

\* reader.read() yields the next k symbols of the body
Feed(k) ==
    /\ streams # <<>>
    /\ pos + k <= Len(Flatten(wire))
    /\ \E r \in {ProcessChunk(Session, streams[1].buffer,
                              SubSeq(Flatten(wire), pos + 1, pos + k), TRUE)} :
        /\ SetSession(r.S)
        /\ streams' = IF r.done THEN <<>>
                      ELSE [streams EXCEPT ![1].buffer = r.buffer,
                                           ![1].pc = IF r.S # Session THEN "streaming" ELSE @]
    /\ ref' = IF ref.done THEN ref
              ELSE ProcessChunk(ref.S, ref.buffer,
                                Unmasked(Flatten(wire), BadMask(wire), pos + 1, pos + k), TRUE)
    /\ pos' = pos + k
    /\ UNCHANGED <<isLoadingHistory, request, loads, charIndex, wire>>

\* reader.read() reports done: the loop ends and the tail of the buffer is dropped
FeedEnd ==
    /\ streams # <<>>
    /\ pos = Len(Flatten(wire))
    /\ streams' = <<>>
    /\ UNCHANGED <<pageVars, request, loads, charIndex, wire, pos, ref>>

NextDecode == (\E k \in 1..Len(Flatten(wire)) : Feed(k)) \/ FeedEnd

SpecDecode == InitDecode /\ [][NextDecode]_vars

----------------------------------------------------------------------------
(* Runs over raw blocks: the response body is a sequence of blocks, each   *)
(* followed by a blank-line boundary; some are frames, some are not.  wire *)
(* holds the blocks, ref the same delivery without the blocks that are no  *)
(* frames.                                                                 *)

Block(text, eol) == [text |-> text, eol |-> eol]

\* the block and the boundary behind it
RawText(b) == b.text \o (IF b.eol = "crlf" THEN <<CR, LF, CR, LF>> ELSE <<LF, LF>>)

\* blocks that are frames
FrameBlocks ==
    { Block(<<EVENT, "plan", LF, DATA, JsonPlan>>, "lf"),
      Block(<<EVENT, "status", CR, LF, DATA, JsonStatus>>, "crlf"),
      Block(<<EVENT, "hitl", LF, DATA, JsonHitl>>, "lf"),
      Block(<<EVENT, "done", LF, DATA, JsonEmpty>>, "lf") }

\* blocks that are no frames: a data line alone, a comment line, an event line
\* alone, an event line with an id line, a frame behind a line feed, nothing
OtherBlocks ==
    { Block(<<DATA, JsonPlan>>, "lf"),
      Block(<<": keepalive">>, "crlf"),
      Block(<<EVENT, "done">>, "lf"),
      Block(<<EVENT, "hitl", LF, "id: 7">>, "lf"),
      Block(<<LF, EVENT, "status", LF, DATA, JsonStatus>>, "lf"),
      Block(<<>>, "lf") }

\* a block that is no frame between two frames
MixedBody ==
    << Block(<<EVENT, "plan", LF, DATA, JsonPlan>>, "lf"),
       Block(<<EVENT, "hitl", LF, "id: 7">>, "lf"),
       Block(<<EVENT, "status", CR, LF, DATA, JsonStatus>>, "crlf") >>

RawBodies ==
    UNION {[1..n -> FrameBlocks \cup OtherBlocks] : n \in 1..MaxBlocks} \cup {MixedBody}

RECURSIVE FlattenRaw(_)
FlattenRaw(bs) == IF bs = <<>> THEN <<>> ELSE RawText(Head(bs)) \o FlattenRaw(Tail(bs))

\* the symbols of a body that belong to a block which is no frame
RECURSIVE OtherMask(_)
OtherMask(bs) ==
    IF bs = <<>> THEN <<>>
    ELSE [i \in 1..Len(RawText(Head(bs))) |-> Head(bs) \in OtherBlocks] \o OtherMask(Tail(bs))

InitRaw ==
    /\ wire \in RawBodies
    /\ pos = 0
    /\ charIndex = 0
    /\ status = Submitted.status
    /\ campaignPlan = NULL /\ partyDetails = NULL /\ narrative = NULL
    /\ threadId = NULL /\ hitlData = NULL
    /\ isLoadingHistory = FALSE
    /\ stored = NULL
    /\ streams = <<Stream("read")>>
    /\ request = NoRequest
    /\ loads = <<>>
    /\ ref = [S |-> Submitted, buffer |-> <<>>, done |-> FALSE]

\* reader.read() yields the next k symbols of the body
FeedRaw(k) ==
    /\ streams # <<>>
    /\ pos + k <= Len(FlattenRaw(wire))
    /\ \E r \in {ProcessChunk(Session, streams[1].buffer,
                              SubSeq(FlattenRaw(wire), pos + 1, pos + k), TRUE)} :
        /\ SetSession(r.S)
        /\ streams' = IF r.done THEN <<>>
                      ELSE [streams EXCEPT ![1].buffer = r.buffer,
                                           ![1].pc = IF r.S # Session THEN "streaming" ELSE @]
    /\ ref' = IF ref.done THEN ref
              ELSE ProcessChunk(ref.S, ref.buffer,
                                Unmasked(FlattenRaw(wire), OtherMask(wire), pos + 1, pos + k), TRUE)
    /\ pos' = pos + k
    /\ UNCHANGED <<isLoadingHistory, request, loads, charIndex, wire>>

\* an end of the body that takes what the buffer holds for a last block
EndRawFlushes ==
    /\ streams # <<>>
    /\ SetSession(FoldBlock(Session, streams[1].buffer, TRUE).S)
    /\ streams' = <<>>
    /\ ref' = [ref EXCEPT !.done = TRUE]
    /\ UNCHANGED <<isLoadingHistory, request, loads, charIndex, wire, pos>>

\* page.tsx:188-189 and 191, reader.read() reports done without a value, after
\* any number of symbols (the body was cut short there): both loops end
EndRaw ==
    /\ streams # <<>>
    /\ streams' = <<>>
    /\ ref' = [ref EXCEPT !.done = TRUE]
    /\ UNCHANGED <<pageVars, request, loads, charIndex, wire, pos>>

NextRaw == (\E k \in 1..Len(FlattenRaw(wire)) : FeedRaw(k)) \/ EndRaw

SpecRaw == InitRaw /\ [][NextRaw]_vars

----------------------------------------------------------------------------
(* The page: handlers, requests in flight, their responses.  streams holds *)
(* the processStream invocations that have not returned, oldest first.     *)

ThreadIds == {"t1", "t2"}

\* the resume actions HitlControls offers: the approve button and a revision text
Actions == {"approve", "revise"}

PageFrames ==
    { Frame("thread_id", JsonThread1, "lf"), Frame("thread_id", JsonThread2, "lf"),
      Frame("status", JsonStatus, "lf"), Frame("plan", JsonPlan, "lf"),
      Frame("hitl", JsonHitl, "lf"), Frame("error", JsonError, "lf"),
      Frame("done", JsonEmpty, "lf") }

\* Reader chunks of a success response hold whole frames: one frame, or a frame
\* that ends the loop with a frame behind it.  (Decoder runs cut anywhere.)
PageChunks ==
    {Text(f) : f \in PageFrames}
        \cup {Text(f) \o Text(g) : f \in {x \in PageFrames : Stops(x)},
                                   g \in {x \in PageFrames : x.type \in {"status", "plan"}}}

\* The body of a non-success response: an error document, no SSE frame.
ErrorBody == <<"{\"detail\":\"Internal Server Error\"}">>

Range(q) == {q[i] : i \in 1..Len(q)}

Remove(q, j) == SubSeq(q, 1, j - 1) \o SubSeq(q, j + 1, Len(q))

\* the open streams note the handler the user invokes
Mark(ss, handler) ==
    [i \in 1..Len(ss) |->
        IF handler = "resumed" /\ ss[i].pc # "streaming" THEN ss[i]
        ELSE [ss[i] EXCEPT !.mark = handler]]

\* the form is shown (page.tsx:426-433) and its button enabled (page.tsx:543), and
\* onSubmit does not take the chat branch (page.tsx:397-424)
CanSubmit ==
    /\ ~isLoadingHistory
    /\ status \in {"", NULL} \/ (status = Complete /\ threadId = NULL)

\* page.tsx:266-300, up to the await of fetch
handleSubmit ==
    /\ CanSubmit
    /\ status' = Connecting
    /\ campaignPlan' = NULL
    /\ partyDetails' = NULL
    /\ narrative' = NULL
    /\ threadId' = NULL
    /\ hitlData' = NULL
    /\ isLoadingHistory' = FALSE
    /\ streams' = Append(Mark(streams, "discarded"), Stream("fetch"))
    /\ request' = Post(NULL, NULL)
    /\ UNCHANGED <<stored, loads, charIndex, wire, pos, ref>>

\* a resume that starts like a submit: the plan is cleared as well
handleResumeClearsPlan(action) ==
    /\ hitlData # NULL
    /\ hitlData' = NULL
    /\ campaignPlan' = NULL
    /\ status' = Resuming
    /\ streams' = Append(Mark(streams, "resumed"), Stream("fetch"))
    /\ request' = Post(threadId, action)
    /\ UNCHANGED <<partyDetails, narrative, threadId,
                   isLoadingHistory, stored, loads, charIndex, wire, pos, ref>>

\* a resume that names the thread by the saved slot, not by the page state
handleResumeFromSlot(action) ==
    /\ hitlData # NULL
    /\ hitlData' = NULL
    /\ status' = Resuming
    /\ streams' = Append(Mark(streams, "resumed"), Stream("fetch"))
    /\ request' = Post(stored, action)
    /\ UNCHANGED <<campaignPlan, partyDetails, narrative, threadId,
                   isLoadingHistory, stored, loads, charIndex, wire, pos, ref>>

\* page.tsx:308-325, up to the await of fetch; HitlControls is rendered only while
\* hitlData is set (page.tsx:860)
handleResume(action) ==
    /\ hitlData # NULL
    /\ hitlData' = NULL
    /\ status' = Resuming
    /\ streams' = Append(Mark(streams, "resumed"), Stream("fetch"))
    /\ request' = Post(threadId, action)
    /\ UNCHANGED <<campaignPlan, partyDetails, narrative, threadId,
                   isLoadingHistory, stored, loads, charIndex, wire, pos, ref>>

\* fetch resolves with a response that has a body; ok is response.ok, which no
\* handler reads
FetchResolves(i, ok) ==
    /\ streams[i].pc = "fetch"
    /\ streams' = [streams EXCEPT ![i].pc = "read", ![i].ok = ok]
    /\ request' = NoRequest
    /\ UNCHANGED <<pageVars, loads, charIndex, wire, pos, ref>>

\* a catch that puts the page back to where handleSubmit starts
FetchFailsAndResets(i) ==
    /\ streams[i].pc = "fetch"
    /\ status' = CouldNotConnect
    /\ campaignPlan' = NULL
    /\ partyDetails' = NULL
    /\ narrative' = NULL
    /\ threadId' = NULL
    /\ streams' = Remove(streams, i)
    /\ request' = NoRequest
    /\ UNCHANGED <<hitlData, isLoadingHistory, stored, loads, charIndex, wire, pos, ref>>

\* fetch rejects, or the response has no body and processStream throws
\* (page.tsx:180): the catch of the caller (page.tsx:301-305, 326-329)
FetchFails(i) ==
    /\ streams[i].pc = "fetch"
    /\ status' = CouldNotConnect
    /\ streams' = Remove(streams, i)
    /\ request' = NoRequest
    /\ UNCHANGED <<campaignPlan, partyDetails, narrative, threadId, hitlData, isLoadingHistory,
                   stored, loads, charIndex, wire, pos, ref>>

\* page.tsx:187-257, one turn of the read loop with a value
ReadChunk(i, chunk, storageOk) ==
    /\ Reading(streams[i])
    \* a non-success response carries its error document, in one chunk
    /\ chunk \in (IF streams[i].ok THEN PageChunks
                  ELSE IF streams[i].buffer = <<>> THEN {ErrorBody} ELSE {})
    /\ \E r \in {ProcessChunk(Session, streams[i].buffer, chunk, storageOk)} :
        /\ SetSession(r.S)
        /\ streams' = IF r.done THEN Remove(streams, i)
                      ELSE [streams EXCEPT ![i].buffer = r.buffer,
                                           ![i].pc = IF r.S # Session THEN "streaming" ELSE @]
    /\ request' = NoRequest
    /\ UNCHANGED <<isLoadingHistory, loads, charIndex, wire, pos, ref>>

\* page.tsx:188-189, reader.read() reports done without a value: the loop ends
ReadDone(i) ==
    /\ Reading(streams[i])
    /\ streams' = Remove(streams, i)
    /\ request' = NoRequest
    /\ UNCHANGED <<pageVars, loads, charIndex, wire, pos, ref>>

\* a read loop whose catch only logs
ReadThrowsSilently(i) ==
    /\ Reading(streams[i])
    /\ streams' = Remove(streams, i)
    /\ request' = NoRequest
    /\ UNCHANGED <<pageVars, loads, charIndex, wire, pos, ref>>

\* page.tsx:259-263, reader.read() rejects
ReadThrows(i) ==
    /\ Reading(streams[i])
    /\ status' = ConnectionFailed
    /\ streams' = Remove(streams, i)
    /\ request' = NoRequest
    /\ UNCHANGED <<campaignPlan, partyDetails, narrative, threadId, hitlData, isLoadingHistory,
                   stored, loads, charIndex, wire, pos, ref>>

\* a new campaign that leaves the saved thread in its slot
NewCampaignKeepsSlot ==
    /\ threadId' = NULL
    /\ campaignPlan' = NULL
    /\ partyDetails' = NULL
    /\ narrative' = NULL
    /\ hitlData' = NULL
    /\ status' = ""
    /\ streams' = Mark(streams, "discarded")
    /\ request' = NoRequest
    /\ UNCHANGED <<stored, isLoadingHistory, loads, charIndex, wire, pos, ref>>

\* page.tsx:101-113, handleSelectThread("")
NewCampaign ==
    /\ threadId' = NULL
    /\ campaignPlan' = NULL
    /\ partyDetails' = NULL
    /\ narrative' = NULL
    /\ hitlData' = NULL
    /\ status' = ""
    /\ stored' = NULL
    /\ streams' = Mark(streams, "discarded")
    /\ request' = NoRequest
    /\ UNCHANGED <<isLoadingHistory, loads, charIndex, wire, pos, ref>>

\* page.tsx:115-121, handleSelectThread(id) up to the await of fetch; when
\* localStorage.setItem throws the handler ends there
handleSelectThread(id, storageOk) ==
    /\ threadId' = id
    /\ streams' = Mark(streams, "discarded")
    /\ IF storageOk
       THEN /\ stored' = id
            /\ isLoadingHistory' = TRUE
            /\ status' = LoadingHistory
            /\ loads' = Append(loads, id)
       ELSE UNCHANGED <<stored, isLoadingHistory, status, loads>>
    /\ request' = NoRequest
    /\ UNCHANGED <<campaignPlan, partyDetails, narrative,  hitlData,
                   charIndex, wire, pos, ref>>

Truthy(v) == v \notin {NULL, ""}

LegacyText == "Long ago, in the Chainlit vaults..."

\* Thread snapshots GET /threads/{id} answers with: messages (type, output)
Msg(type, output) == [type |-> type, output |-> output]

Snapshots ==
    { [messages |-> <<Msg("run", JsonPlan), Msg("run", JsonParty), Msg("run", JsonNarrative)>>],
      [messages |-> <<Msg("run", LegacyText), Msg("run", JsonBad)>>],
      [messages |-> <<>>] }

\* page.tsx:131-153, the loop over data.messages; L holds loadedPlan, loadedParty,
\* loadedNarrative and whether legacyText is non-empty
RECURSIVE LoadMessages(_, _)
LoadMessages(msgs, L) ==
    IF msgs = <<>> THEN L
    ELSE LET out == Head(msgs).output
             p == JSONparse(<<out>>)
             o == p.value
             next ==
                 IF out \in {JsonPlan, JsonParty, JsonNarrative, JsonBad, JsonEmpty}  \* starts with '{'
                 THEN IF ~p.ok THEN L
                      ELSE IF Truthy(Prop(o, "campaign_plan")) \/ Truthy(Prop(o, "core_conflict"))
                           THEN [L EXCEPT !.plan = IF Truthy(Prop(o, "campaign_plan"))
                                                   THEN Prop(o, "campaign_plan") ELSE o]
                      ELSE IF Truthy(Prop(o, "party_details")) \/ Truthy(Prop(o, "characters"))
                           THEN [L EXCEPT !.party = IF Truthy(Prop(o, "party_details"))
                                                    THEN Prop(o, "party_details") ELSE o]
                      ELSE IF /\ Truthy(Prop(o, "title")) /\ Truthy(Prop(o, "description"))
                              /\ Truthy(Prop(o, "background"))
                           THEN [L EXCEPT !.narrative = o]
                      ELSE L
                 ELSE IF Head(msgs).type \in {"run", "assistant_message", "llm", "message", "tool"}
                         /\ out = LegacyText                                   \* longer than 20
                      THEN [L EXCEPT !.legacy = TRUE]
                      ELSE L
         IN  LoadMessages(Tail(msgs), next)

\* page.tsx:122-170 and 174-176, the answer to GET /threads/{id} carries messages
LoadResolves(j, data) ==
    /\ j \in 1..Len(loads)
    /\ \E L \in {LoadMessages(data.messages,
                              [plan |-> NULL, party |-> NULL, narrative |-> NULL, legacy |-> FALSE])} :
        LET nar == IF L.narrative = NULL /\ L.legacy THEN "narrative:Archived Campaign"
                   ELSE L.narrative
        IN  /\ campaignPlan' = L.plan
            /\ partyDetails' = L.party
            /\ narrative' = nar
            /\ status' = IF nar # NULL \/ L.plan # NULL \/ L.legacy THEN Complete ELSE Waiting
    /\ isLoadingHistory' = FALSE
    /\ loads' = Remove(loads, j)
    /\ request' = NoRequest
    /\ UNCHANGED <<threadId,  hitlData, stored, streams,
                   charIndex, wire, pos, ref>>

\* page.tsx:125 and 174-176, the answer carries no messages: only the finally runs
LoadEmpty(j) ==
    /\ j \in 1..Len(loads)
    /\ isLoadingHistory' = FALSE
    /\ loads' = Remove(loads, j)
    /\ request' = NoRequest
    /\ UNCHANGED <<status, campaignPlan, partyDetails, narrative, threadId,
                   hitlData, stored, streams, charIndex, wire, pos, ref>>

\* a catch that also forgets the saved thread
LoadFailsAndForgets(j) ==
    /\ j \in 1..Len(loads)
    /\ status' = ErrorLoadingHistory
    /\ isLoadingHistory' = FALSE
    /\ stored' = NULL
    /\ loads' = Remove(loads, j)
    /\ request' = NoRequest
    /\ UNCHANGED <<campaignPlan, partyDetails, narrative, threadId, hitlData, streams,
                   charIndex, wire, pos, ref>>

\* page.tsx:171-176, fetch or res.json() rejects
LoadFails(j) ==
    /\ j \in 1..Len(loads)
    /\ status' = ErrorLoadingHistory
    /\ isLoadingHistory' = FALSE
    /\ loads' = Remove(loads, j)
    /\ request' = NoRequest
    /\ UNCHANGED <<campaignPlan, partyDetails, narrative, threadId,
                   hitlData, stored, streams, charIndex, wire, pos, ref>>

\* The page after its first render and the mount effect (page.tsx:89-96): nothing
\* saved, or the saved thread being restored.
Init ==
    /\ campaignPlan = NULL /\ partyDetails = NULL /\ narrative = NULL
    /\ hitlData = NULL
    /\ streams = <<>>
    /\ request = NoRequest
    /\ wire = <<>> /\ pos = 0
    /\ charIndex = 0
    /\ ref = [S |-> Submitted, buffer |-> <<>>, done |-> FALSE]
    /\ \/ /\ stored = NULL
          /\ threadId = NULL /\ status = "" /\ isLoadingHistory = FALSE /\ loads = <<>>
       \/ /\ stored \in ThreadIds
          /\ threadId = stored /\ status = LoadingHistory /\ isLoadingHistory = TRUE
          /\ loads = <<stored>>

\* a step of the stream at index i of streams
StreamStep(i) ==
    \/ \E ok \in BOOLEAN : FetchResolves(i, ok)
    \/ FetchFails(i)
    \/ \E chunk \in PageChunks \cup {ErrorBody} :
          \E storageOk \in (IF "thread_id" \in Range(chunk) THEN BOOLEAN ELSE {TRUE}) :
              ReadChunk(i, chunk, storageOk)
    \/ ReadDone(i)
    \/ ReadThrows(i)

Next ==
    \/ Len(streams) < MaxStreams /\ handleSubmit
    \/ Len(streams) < MaxStreams /\ \E action \in Actions : handleResume(action)
    \/ \E i \in 1..Len(streams) : StreamStep(i)
    \/ NewCampaign
    \/ \E id \in ThreadIds, storageOk \in BOOLEAN :
          Len(loads) < MaxLoads /\ handleSelectThread(id, storageOk)
    \/ \E j \in 1..Len(loads), data \in Snapshots : LoadResolves(j, data)
    \/ \E j \in 1..Len(loads) : LoadEmpty(j)
    \/ \E j \in 1..Len(loads) : LoadFails(j)

Spec == Init /\ [][Next]_vars

\* Races between streams: a page that starts with nothing saved, where the user
\* only submits, resumes and starts new campaigns, with one stream more in flight.
InitRace == Init /\ stored = NULL

NextRace ==
    \/ Len(streams) < MaxRaceStreams /\ handleSubmit
    \/ Len(streams) < MaxRaceStreams /\ \E action \in Actions : handleResume(action)
    \/ \E i \in 1..Len(streams) : StreamStep(i)
    \/ NewCampaign

SpecRace == InitRace /\ [][NextRace]_vars

\* Races between thread loads: the user only selects threads and starts new
\* campaigns, with one load more in flight; the store holds one snapshot per
\* thread, and a GET /threads/{id} that is answered with messages is answered
\* with it.
ThreadSnapshot(id) ==
    IF id = "t1"
    THEN [messages |-> <<Msg("run", JsonPlan), Msg("run", JsonParty), Msg("run", JsonNarrative)>>]
    ELSE [messages |-> <<Msg("run", LegacyText), Msg("run", JsonBad)>>]

NextLoads ==
    \/ NewCampaign
    \/ \E id \in ThreadIds, storageOk \in BOOLEAN :
          Len(loads) < MaxRaceLoads /\ handleSelectThread(id, storageOk)
    \/ \E j \in 1..Len(loads) : LoadResolves(j, ThreadSnapshot(loads[j]))
    \/ \E j \in 1..Len(loads) : LoadEmpty(j)
    \/ \E j \in 1..Len(loads) : LoadFails(j)

SpecLoads == Init /\ [][NextLoads]_vars

----------------------------------------------------------------------------
(* The character carousel of the page: its index charIndex outlives the    *)
(* party it was set for.  A party is named by the number of its characters.*)

\* a parsed party, by the length of its characters array ("party:empty" is what
\* JSON.parse makes of JsonParty)
PartyOf(n) == IF n = 0 THEN "party:empty" ELSE "party:" \o ToString(n)

CarouselParties == {PartyOf(n) : n \in 0..MaxCharacters}

\* page.tsx:780-781, chars.length
total == CHOOSE n \in 0..MaxCharacters : PartyOf(n) = partyDetails

\* Math.min
Min(a, b) == IF a <= b THEN a ELSE b

\* the % of JavaScript: the remainder has the sign of the dividend
Rem(a, b) == IF a >= 0 THEN a % b ELSE 0 - ((0 - a) % b)

\* an index that is not clamped to the party
idxUnclamped == charIndex

\* page.tsx:782, const idx = Math.min(charIndex, total - 1)
idx == Min(charIndex, total - 1)

\* page.tsx:772, the carousel is rendered while partyDetails?.characters is
\* truthy (an empty array is)
CarouselShown == partyDetails \in CarouselParties

\* page.tsx:166 and 236, setPartyDetails with another party; charIndex stays
ReplaceParty(party) ==
    /\ partyDetails' = party
    /\ UNCHANGED <<status, campaignPlan, narrative, threadId, charIndex, hitlData,
                   isLoadingHistory, stored, streams, request, loads, wire, pos, ref>>

\* page.tsx:783-786 and 794-801, the left arrow
ClickPrev ==
    /\ CarouselShown /\ total > 1
    /\ charIndex' = Rem(charIndex - 1 + total, total)
    /\ UNCHANGED <<pageVars, streams, request, loads, wire, pos, ref>>

\* page.tsx:787-790 and 802-807, the right arrow
ClickNext ==
    /\ CarouselShown /\ total > 1
    /\ charIndex' = Rem(charIndex + 1, total)
    /\ UNCHANGED <<pageVars, streams, request, loads, wire, pos, ref>>

\* page.tsx:820-829, the dot of character i
ClickDot(i) ==
    /\ CarouselShown /\ total > 1
    /\ i \in 0..(total - 1)
    /\ i # idx
    /\ charIndex' = i
    /\ UNCHANGED <<pageVars, streams, request, loads, wire, pos, ref>>

NextCarousel ==
    \/ \E party \in CarouselParties \cup {NULL} : ReplaceParty(party)
    \/ ClickPrev
    \/ ClickNext
    \/ \E i \in 0..(MaxCharacters - 1) : ClickDot(i)

SpecCarousel == InitRace /\ [][NextCarousel]_vars

----------------------------------------------------------------------------
(* Claims about decoder runs *)

Closed == streams = <<>>

\* the page state after the whole body arrives as one reader chunk
WholeRun(fs) == ProcessChunk(Submitted, <<>>, Flatten(fs), TRUE).S

RECURSIVE FirstStopFrom(_, _)
FirstStopFrom(fs, i) ==
    IF i > Len(fs) THEN 0
    ELSE IF Stops(fs[i]) THEN i
    ELSE FirstStopFrom(fs, i + 1)

FirstStop(fs) == FirstStopFrom(fs, 1)

\* number of symbols before frame i of the body
StartOf(fs, i) == Len(Flatten(SubSeq(fs, 1, i - 1)))

\* this step reads frame i of the body as one chunk into an empty buffer
ReadsFrame(i) ==
    /\ streams # <<>>
    /\ streams[1].buffer = <<>>
    /\ pos = StartOf(wire, i)
    /\ pos' = pos + Len(Text(wire[i]))

\* C1 (as claimed): when the read loop has ended, the page state is the one the
\* same body leaves when it arrives as a single chunk, whatever the chunking was.
C1_ChunkInvariance == Closed => Session = WholeRun(wire)

\* C2 (as claimed): when the first frame that ends the loop is a hitl frame, the
\* final page state is the one right after that frame: no frame behind it is folded.
C2_NothingFoldedAfterHitl ==
    (Closed /\ FirstStop(wire) # 0 /\ wire[FirstStop(wire)].type = "hitl")
        => Session = WholeRun(SubSeq(wire, 1, FirstStop(wire)))

\* C3 (as claimed): when the first frame that ends the loop is a done or an error
\* frame, the final page state is the one right after that frame: Complete and
\* Failed are not left by later frames of the stream.
C3_TerminalStaysTerminal ==
    (Closed /\ FirstStop(wire) # 0 /\ wire[FirstStop(wire)].type \in {"done", "error"})
        => Session = WholeRun(SubSeq(wire, 1, FirstStop(wire)))

ValidFollowsBad ==
    \E i \in 1..Len(wire), j \in 1..Len(wire) : i < j /\ IsBad(wire[i]) /\ ~IsBad(wire[j])

----------------------------------------------------------------------------
(* Claims about the page *)

\* the session state the stream events fold into
SessionState == <<status, threadId, hitlData, campaignPlan, partyDetails, narrative>>

\* the stream at index i reads a chunk in this step
ChunkStep(i) ==
    \E chunk \in PageChunks \cup {ErrorBody}, storageOk \in BOOLEAN : ReadChunk(i, chunk, storageOk)

\* this step starts another session: a submit, a new campaign or a thread switch
SessionStarts ==
    \/ handleSubmit
    \/ NewCampaign
    \/ \E id \in ThreadIds, storageOk \in BOOLEAN : handleSelectThread(id, storageOk)

\* C4 (as claimed): in every reachable state of the page, hitlData is set exactly
\* when the status is the one that waits for the approval.
C4_ApprovalIffWaiting == (hitlData # NULL) <=> (status = Waiting)

\* C5 (as claimed): once threadId is set, no step other than the start of another
\* session (handleSubmit, handleSelectThread) changes it: a later thread_id event
\* with another id leaves it alone.
C5_ThreadIdSetOnce ==
    [][(threadId # NULL /\ ~SessionStarts) => threadId' = threadId]_vars

\* C6 (as claimed): a stream that had changed the page state when handleResume
\* issued its request reads no chunk afterwards that changes the session state.
C6_ResumeSupersedes ==
    [][\A i \in 1..Len(streams) :
         (streams[i].mark = "resumed" /\ ChunkStep(i)) => SessionState' = SessionState]_vars

\* C7 (as claimed): a stream that was open when the user submitted again or
\* switched or cleared the thread reads no chunk afterwards that changes the
\* session state or the persisted thread id.
C7_DiscardSupersedes ==
    [][\A i \in 1..Len(streams) :
         (streams[i].mark = "discarded" /\ ChunkStep(i))
            => (SessionState' = SessionState /\ stored' = stored)]_vars

\* C10 (as claimed): when the read loop of a response with a non-success status
\* ends, and the user has invoked no handler meanwhile, the status is no longer the
\* one the submit or the resume had set.
C10_NonSuccessFails ==
    [][\A i \in 1..Len(streams) :
         (~streams[i].ok /\ streams[i].mark = "" /\ ReadDone(i))
            => status' \notin {Connecting, Resuming}]_vars

\* the statuses of a failed session
TransportErrors == {CouldNotConnect, ConnectionFailed}

\* this step is a transport failure of the stream at index i
TransportFails(i) == FetchFails(i) \/ ReadThrows(i)

\* C11: when the fetch of a stream rejects (or its response has no body) or its
\* reader throws, the status becomes one of the two transport errors and the
\* stream is over; and a request is only ever issued by a step of handleSubmit or
\* handleResume, never by the page on its own.
C11_TransportFailureIsFatal ==
    [][/\ \A i \in 1..Len(streams) :
            TransportFails(i)
                => /\ status' \in TransportErrors
                   /\ status' = (IF streams[i].pc = "fetch" THEN CouldNotConnect ELSE ConnectionFailed)
                   /\ Len(streams') = Len(streams) - 1
       /\ request'.sent => (handleSubmit \/ \E action \in Actions : handleResume(action))]_vars

\* C11 witness: the reader of a stream that had folded a plan threw; the stream is
\* over and nothing was requested
C11_Witness ==
    /\ status = ConnectionFailed
    /\ campaignPlan # NULL
    /\ streams = <<>>
    /\ ~request.sent

\* the statuses of a session that is connecting or streaming
InProgress == {Connecting, Resuming, "Planning..."}

\* C12 (as claimed): when the reader of a success response reports its end while
\* the session is connecting or streaming, no hitl, done or error event of the
\* stream has been folded and the user has invoked no handler meanwhile, the
\* session does not stay in its streaming status.
C12_TruncatedStreamFails ==
    [][\A i \in 1..Len(streams) :
         (streams[i].ok /\ streams[i].mark = "" /\ status \in InProgress /\ ReadDone(i))
            => status' \notin InProgress]_vars

\* the fields a failure must leave alone
Progress == <<campaignPlan, partyDetails, narrative, threadId>>

\* the chunk that holds the error frame alone
ErrorChunk == Text(Frame("error", JsonError, "lf"))

\* this step takes the session to Failed: the request of the stream at index i
\* fails, its reader throws, or it folds an error event
Fails(i) ==
    \/ FetchFails(i)
    \/ ReadThrows(i)
    \/ status' = ErrorStatus("boom") /\ ReadChunk(i, ErrorChunk, TRUE)

\* C13: a step that takes the session to Failed through an error event, a read
\* error or a failed request leaves plan, party, narrative and threadId as they were.
C13_NoRollback ==
    [][\A i \in 1..Len(streams) : Fails(i) => Progress' = Progress]_vars

\* C13 witness: an error event has taken the session to Failed, and a plan and a
\* thread id are still there
C13_Witness ==
    /\ status = ErrorStatus("boom")
    /\ campaignPlan # NULL
    /\ threadId # NULL
    /\ streams = <<>>

\* the chunk that holds the thread_id frame of id alone
ThreadChunk(id) ==
    Text(Frame("thread_id", IF id = "t1" THEN JsonThread1 ELSE JsonThread2, "lf"))

\* what the stream at index i leaves when it reads the thread_id frame of id now
ThreadFold(i, id, storageOk) ==
    ProcessChunk(Session, streams[i].buffer, ThreadChunk(id), storageOk)

\* C14: in every state of the page, a stream that reads a thread_id frame sets
\* threadId to its id and, when the write succeeds, the persisted slot to the same
\* id; when the write throws, threadId is set all the same and the slot keeps its
\* value; either way nothing else changes, the loop is not ended and the buffer is
\* empty, ready for the next frame.
C14_ThreadIdPersisted ==
    \A i \in 1..Len(streams), id \in ThreadIds, storageOk \in BOOLEAN :
        (Reading(streams[i]) /\ streams[i].ok)
            => /\ ThreadFold(i, id, storageOk).S =
                      [Session EXCEPT !.threadId = id,
                                      !.stored = IF storageOk THEN id ELSE stored]
               /\ ~ThreadFold(i, id, storageOk).done
               /\ ThreadFold(i, id, storageOk).buffer = <<>>

\* C14 witness: the stream of a submit has folded its thread_id event, the write
\* of the slot threw, and the stream is still being read
C14_Witness ==
    /\ status = Connecting
    /\ threadId = "t1"
    /\ stored = NULL
    /\ Len(streams) = 1
    /\ streams[1].pc = "streaming" /\ streams[1].mark = ""

\* this step folds a thread_id event whose id it writes to the slot
ThreadIdFolds ==
    \E i \in 1..Len(streams) :
        stored' \in ThreadIds /\ ReadChunk(i, ThreadChunk(stored'), TRUE)

\* this step is handleSelectThread, with an id or with none
ThreadSelected ==
    NewCampaign \/ \E id \in ThreadIds, storageOk \in BOOLEAN : handleSelectThread(id, storageOk)

\* C15 (as claimed): the persisted slot changes only in a step that folds a
\* thread_id event.
C15_SlotWrittenOnThreadIdOnly == [][stored' # stored => ThreadIdFolds]_vars

\* C15 (amended): the persisted slot changes only in a step that folds a thread_id
\* event or in a step of handleSelectThread.
C15_SlotWrittenOnThreadIdOrSelect ==
    [][stored' # stored => (ThreadSelected \/ ThreadIdFolds)]_vars

\* C15 witness: handleSelectThread has written the slot on a page that showed a plan
C15_Witness ==
    /\ stored = "t2" /\ threadId = "t2"
    /\ status = LoadingHistory
    /\ campaignPlan # NULL
    /\ loads = <<"t2">>

\* C16 (as claimed): when the load of a selected or restored thread ends with the
\* status that waits for the approval, hitlData is set, so that HitlControls is
\* rendered and handleResume can be invoked.
C16_RestoredIsResumable ==
    [][\A j \in 1..Len(loads), data \in Snapshots :
         (LoadResolves(j, data) /\ status' = Waiting) => hitlData' # NULL]_vars

\* C17: a step of handleResume("approve") clears hitlData and sets the resuming
\* status, whatever plan, party and narrative hold, and leaves plan, party,
\* narrative and threadId as they were.
C17_ApproveClearsApproval ==
    [][handleResume("approve")
         => /\ hitlData' = NULL
            /\ status' = Resuming
            /\ Progress' = Progress]_vars

\* C17 witness: the approval of a plan was sent, the plan is still there
C17_Witness ==
    /\ request = Post(threadId, "approve")
    /\ status = Resuming
    /\ hitlData = NULL
    /\ campaignPlan # NULL

----------------------------------------------------------------------------
(* More claims about decoder runs *)

\* a body made of a thread_id frame, status frames and a hitl frame at its end
ApprovalBody(fs) ==
    /\ Len(fs) >= 2
    /\ fs[1].type = "thread_id" /\ ~IsBad(fs[1])
    /\ fs[Len(fs)].type = "hitl" /\ ~IsBad(fs[Len(fs)])
    /\ \A i \in 2..(Len(fs) - 1) : fs[i].type = "status"

\* C18: when the body is a thread_id frame, status frames and a hitl frame at its
\* end, then under every chunking the run ends with threadId the id of the first
\* frame, the status that waits for the approval, and hitlData the hitl payload.
C18_ApprovalReached ==
    (ApprovalBody(wire) /\ Closed)
        => /\ threadId = Prop(JSONparse(<<wire[1].data>>).value, "thread_id")
           /\ status = Waiting
           /\ hitlData = JSONparse(<<wire[Len(wire)].data>>).value

\* C18 witness: the body of the example was delivered and the run is over
C18_Witness ==
    /\ wire = ExampleBody
    /\ Closed
    /\ pos = Len(Flatten(wire))
    /\ threadId = "t1" /\ hitlData = "hitl:approve"

\* the frames of the body, folded one after the other in the order of the wire
RECURSIVE FoldFrames(_, _)
FoldFrames(S, fs) ==
    IF fs = <<>> THEN S
    ELSE FoldFrames(FoldEvent(S, Head(fs).type, <<Head(fs).data>>, TRUE).S, Tail(fs))

\* number of frames of the body that lie wholly within its first n symbols
RECURSIVE WholeFrames(_, _)
WholeFrames(fs, n) ==
    IF fs = <<>> \/ Len(Text(Head(fs))) > n THEN 0
    ELSE 1 + WholeFrames(Tail(fs), n - Len(Text(Head(fs))))

\* C19: at every moment of a delivery, whatever the chunking, the page state is
\* the one that results from folding the frames delivered so far one by one in
\* the order of the wire: no event is folded before one that precedes it.
C19_WireOrder ==
    Session = FoldFrames(Submitted, SubSeq(wire, 1, WholeFrames(wire, pos)))

\* C19 witness: a hitl frame and a status frame behind it were both folded; the
\* status is the one of the later frame
C19_Witness ==
    /\ Len(wire) = 2
    /\ wire[1].type = "hitl" /\ wire[2].type = "status"
    /\ pos = Len(Flatten(wire))
    /\ hitlData = "hitl:approve"
    /\ status = "Planning..."

\* page.tsx:426-433 and 660: what the page makes of the status.  Without one it
\* shows the form of a new generation, with the complete one the chat, with any
\* other the status tracker of a generation under way.
Phase(S) ==
    IF ~Truthy(S.status) THEN "Idle"
    ELSE IF S.status = Complete THEN "Complete"
    ELSE "Streaming"

\* the field each of the four progress events writes
OwnField ==
    [status |-> "status", plan |-> "campaignPlan", party |-> "partyDetails",
     narrative |-> "narrative"]

\* the page state when the first k frames of the body have been folded
AfterFrame(k) == FoldFrames(Submitted, SubSeq(wire, 1, k))

\* C22 (as claimed): every status, plan, party or narrative frame that was folded
\* in the run changed at most its own field, and left the phase the page shows as
\* it was.
C22_FrameEffect ==
    \A k \in 1..WholeFrames(wire, pos) :
        (wire[k].type \in DOMAIN OwnField /\ ~IsBad(wire[k]))
            => /\ \A f \in (DOMAIN Submitted) \ {OwnField[wire[k].type]} :
                      AfterFrame(k)[f] = AfterFrame(k - 1)[f]
               /\ Phase(AfterFrame(k)) = Phase(AfterFrame(k - 1))

\* the part of the body delivered so far that lies behind its last whole frame
UnterminatedTail == SubSeq(Flatten(wire), StartOf(wire, WholeFrames(wire, pos) + 1) + 1, pos)

\* C23: whenever the read loop waits for its next chunk, the buffer holds no
\* blank-line boundary, and it is exactly the part of the delivered text behind
\* the last frame that was delivered whole.
C23_BufferIsTail ==
    streams # <<>>
        => /\ boundaryIndex(streams[1].buffer) = 0
           /\ streams[1].buffer = UnterminatedTail

\* C23 witness: two chunks were read, the second one ended a frame with CRLF line
\* ends and began the next, which is kept
C23_Witness ==
    /\ Len(wire) = 2 /\ wire[1].eol = "crlf"
    /\ streams # <<>>
    /\ streams[1].buffer = <<EVENT, wire[2].type, LF>>
    /\ status = "Planning..."

\* the event types the dispatch knows (page.tsx:214-248)
EventTypes == {"thread_id", "hitl", "status", "plan", "party", "narrative", "error", "done"}

Known(f) == f.type \in EventTypes

\* the frames of the body that were delivered whole
Delivered == SubSeq(wire, 1, WholeFrames(wire, pos))

\* C26: at every moment of a delivery the page state is the one that results from
\* folding the frames delivered so far without those of an unknown event type,
\* and a read loop that ended before the end of the body was ended by a frame of
\* a known type: a frame of an unknown type changes nothing, does not end the
\* stream, and the frames behind it are folded as usual.
C26_UnknownTypeIgnored ==
    /\ Session = FoldFrames(Submitted, SelectSeq(Delivered, Known))
    /\ (Closed /\ pos < Len(Flatten(wire)))
          => \E k \in 1..Len(Delivered) : Known(Delivered[k]) /\ Stops(Delivered[k])

\* C26 witness: a frame of an unknown type and a plan frame behind it were
\* delivered; the plan is there, the status is the one of the submit, the loop
\* goes on
C26_Witness ==
    /\ Len(wire) = 2
    /\ ~Known(wire[1]) /\ wire[2].type = "plan"
    /\ pos = Len(Flatten(wire))
    /\ campaignPlan = "plan:feud" /\ status = Connecting
    /\ streams # <<>> /\ streams[1].buffer = <<>>

----------------------------------------------------------------------------
(* Claims about runs over raw blocks *)

\* the block does not begin with "event: "
NoEventLine(b) == b.text = <<>> \/ Head(b.text) # EVENT

\* the block has no "data: " marker
NoDataMarker(b) == DATA \notin Range(b.text)

\* C24: at every moment of the delivery of a body whose blocks either are frames,
\* or do not begin with "event: ", or have no "data: " marker, the page state is
\* the one the same delivery gives without the blocks that are no frames, and
\* the read loop has ended in the one exactly when it has in the other: such a
\* block changes nothing, does not stop the stream, and the blocks behind it are
\* processed.
C24_OtherBlocksIgnored ==
    (\A i \in 1..Len(wire) : wire[i] \in FrameBlocks \/ NoEventLine(wire[i]) \/ NoDataMarker(wire[i]))
        => /\ Session = ref.S
           /\ (streams = <<>>) = ref.done

\* C24 witness: the frames on both sides of an event line without data were
\* folded and the loop goes on
C24_Witness ==
    /\ wire = MixedBody
    /\ pos = Len(FlattenRaw(wire))
    /\ campaignPlan = "plan:feud" /\ status = "Planning..."
    /\ streams # <<>> /\ streams[1].buffer = <<>>

\* C25: when the reader reports the end of the body while the buffer holds text
\* that no boundary has ended, the read loop ends and the page state stays as it
\* was: the text is not folded and no error status is set.
C25_TailDiscarded ==
    [][(streams # <<>> /\ streams[1].buffer # <<>> /\ EndRaw)
          => (Session' = Session /\ Closed')]_vars

\* C25 witness: the body ended behind the data line of a plan frame, before its
\* boundary; the loop is over and there is no plan
C25_Witness ==
    /\ wire[1] = Block(<<EVENT, "plan", LF, DATA, JsonPlan>>, "lf")
    /\ pos = Len(wire[1].text)
    /\ Closed
    /\ campaignPlan = NULL /\ status = Connecting

----------------------------------------------------------------------------
(* More claims about the page *)

\* the chunk that holds the hitl frame alone
HitlChunk == Text(Frame("hitl", JsonHitl, "lf"))

\* the stream at index i is the one a resume waits for, and has folded nothing yet
AwaitsFirstEvent(i) ==
    /\ status = Resuming
    /\ hitlData = NULL
    /\ streams[i].pc = "read" /\ streams[i].ok /\ streams[i].mark = ""

\* C20: when the first event of the stream a resume waits for is another hitl, the
\* session waits for the approval again, with hitlData the new payload and no
\* error status, and the stream is over: handleResume can be invoked once more,
\* round after round.
C20_NestedApproval ==
    [][\A i \in 1..Len(streams) :
         (AwaitsFirstEvent(i) /\ ReadChunk(i, HitlChunk, TRUE))
            => /\ status' = Waiting
               /\ hitlData' = JSONparse(<<JsonHitl>>).value
               /\ Len(streams') = Len(streams) - 1]_vars

\* C20 witness: after an approval, the response of the resume has arrived and the
\* hitl frame that follows as its first event will be folded
C20_Witness ==
    /\ Len(streams) = 1
    /\ AwaitsFirstEvent(1)
    /\ ENABLED ReadChunk(1, HitlChunk, TRUE)

\* C21: a step of handleResume(action), taken while an approval is pending, issues
\* one POST /generate whose body carries the threadId of the page and the action,
\* and leaves the resuming status, no hitlData, and one stream more than before,
\* which awaits its response and has read nothing.
C21_ResumeRequest ==
    [][\A action \in Actions :
         handleResume(action)
            => /\ hitlData # NULL
               /\ request' = Post(threadId, action)
               /\ status' = Resuming
               /\ hitlData' = NULL
               /\ Len(streams') = Len(streams) + 1
               /\ streams'[Len(streams')] = Stream("fetch")]_vars

\* C21 witness: a revision was requested for a thread whose id never reached the
\* saved slot; the request names the thread and the action, its stream awaits the
\* response
C21_Witness ==
    /\ request = Post("t1", "revise")
    /\ threadId = "t1" /\ stored = NULL
    /\ status = Resuming /\ hitlData = NULL
    /\ streams = <<Stream("fetch")>>

\* C27 (as claimed): as long as an approval request stays pending, threadId stays
\* the id it was when the hitl event was folded, also across a step of
\* handleSelectThread, so that the request of handleResume names the thread of
\* the stream that asked for the approval.
C27_ResumeNamesApprovalThread ==
    [][(hitlData # NULL /\ hitlData' = hitlData) => threadId' = threadId]_vars

\* what the page shows of a thread: plan, party, narrative
Shown == <<campaignPlan, partyDetails, narrative>>

\* what handleSelectThread makes of the snapshot of a thread (page.tsx:126-167)
ShownOf(id) ==
    LET L == LoadMessages(ThreadSnapshot(id).messages,
                          [plan |-> NULL, party |-> NULL, narrative |-> NULL, legacy |-> FALSE])
    IN  <<L.plan, L.party,
          IF L.narrative = NULL /\ L.legacy THEN "narrative:Archived Campaign" ELSE L.narrative>>

\* C28 (as claimed): when no thread load is in flight, the page shows the plan,
\* party and narrative of the thread whose id is in threadId, and none when
\* threadId is null, in whatever order the loads were answered.
C28_LoadsConsistent ==
    loads = <<>> => Shown = (IF threadId = NULL THEN <<NULL, NULL, NULL>> ELSE ShownOf(threadId))

\* the page after handleSelectThread(""): nothing of a session, no status, no slot
Cleared ==
    /\ threadId = NULL /\ campaignPlan = NULL /\ partyDetails = NULL /\ narrative = NULL
    /\ hitlData = NULL
    /\ status = ""
    /\ stored = NULL

SetItemThrows ==
    \/ \E id \in ThreadIds : handleSelectThread(id, FALSE)
    \/ \E i \in 1..Len(streams) :
          threadId' \in ThreadIds /\ ReadChunk(i, ThreadChunk(threadId'), FALSE)

C30_CarouselInBounds == CarouselShown => (0 <= idx /\ idx < total)

\* C30 (amended): whenever the carousel is rendered for a party with at least
\* one character, the displayed index is at least 0 and less than the number of
\* characters; for a party without characters it is -1.
C30_CarouselInBoundsUnlessEmpty ==
    CarouselShown => IF total = 0 THEN idx = 0 - 1 ELSE (0 <= idx /\ idx < total)

\* C30 witness: the index was moved to the last character of a party, and the
\* party was replaced by a smaller one: the last character of that one is shown
C30_Witness ==
    /\ CarouselShown
    /\ total = 2
    /\ charIndex = MaxCharacters - 1
    /\ idx = 1

====
